---- MODULE Spec2Model ----
(***************************************************************************)
(* Model of server/app.py: the delivery-allocation webhook                 *)
(* (allocate_delivery), the status endpoint (update_status) and the two    *)
(* read endpoints that touch the same tables (get_dashboard,               *)
(* get_call_logs), over the delivery_boys and call_logs tables.            *)
(*                                                                         *)
(* Every request runs in its own SQLAlchemy session.  allocate_delivery is *)
(* split at its store round trips: the SELECT of line 417, the             *)
(* flush+COMMIT of line 441 and the reload of the expired worker row that  *)
(* line 445 triggers (sessions expire their objects on commit).  Each      *)
(* round trip can raise; the handler's except clause (456-462) answers.    *)
(***************************************************************************)
EXTENDS Integers, Sequences, FiniteSets

(* ------------------------------ bounds -------------------------------- *)
NumWorkers == 2       \* rows of delivery_boys
NumReq == 2           \* inbound-call webhooks handled during a run
MaxMinute == 1        \* the UTC clock runs over minutes 0..MaxMinute
SuffixSpace == 2      \* stands for the 16^4 values of str(uuid4())[:4]
MinutesPerDay == 2    \* minutes in one UTC date, scaled down

Workers == 1..NumWorkers
Req == 1..NumReq
Suffixes == 0..(SuffixSpace - 1)
Callers == {"+919876543210"}
FromValues == Callers \cup {""}     \* "" : From missing or empty (falsy)
StatusInputs == {"free", "occupied", "invalid"}

NoOrder == <<>>                     \* current_order_id IS NULL
NoWorker == 0

VARIABLES
  workers,     \* delivery_boys: id -> row
  call_logs,   \* call_logs, in insertion order (id = index)
  now,         \* UTC clock, in minutes
  pc,          \* per webhook request: position in allocate_delivery
  caller,      \* per request: caller_number
  sel,         \* per request: id of available_delivery_boy (NoWorker: none)
  tx,          \* per request: its session's transaction
  raised,      \* per request: where an exception was raised ("" : nowhere)
  resp,        \* per request: the response returned to the provider
  api          \* status code of the last session-authenticated response

vars == <<workers, call_logs, now, pc, caller, sel, tx, raised, resp, api>>

(* --------------------------- DeliveryBoy ------------------------------ *)
DeliveryBoy(active) ==
  [status |-> "free", current_order_id |-> NoOrder,
   deliveries_today |-> 0, is_active |-> active]

(* ----------------------------- CallLog -------------------------------- *)
CallLog(w, number, order, t) ==
  [delivery_boy_id |-> w, client_number |-> number, order_id |-> order,
   call_time |-> t, call_status |-> "connected", call_duration |-> 0]

(* ------------------------ generate_order_id --------------------------- *)
generate_order_id(t, u) == <<"ORD", t, u>>

(* ----------------------------- responses ------------------------------ *)
Response(code, ctype, say, dial) ==
  [code |-> code, ctype |-> ctype, say |-> say, dial |-> dial]

NoResponse == Response(0, "", "", NoWorker)
CallerMissing == Response(400, "application/json", "Caller number not provided", NoWorker)
AllBusy == Response(200, "application/xml", "Sorry, all delivery boys are currently busy. Please try again later.", NoWorker)
Connecting(w) == Response(200, "application/xml", "Connecting you to delivery boy", w)
ErrorProcessing == Response(200, "application/xml", "Sorry, there was an error processing your call. Please try again later.", NoWorker)

(* --------------------- session endpoint responses --------------------- *)
NoApi == 0
Ok == 200
BadRequest == 400
NotFound == 404
ServerError == 500

(* ------------------------------ queries ------------------------------- *)
\* faulty variants of the filter: the status test, or the is_active test, dropped
FreeActiveIgnoringStatus(ws) == {w \in Workers : ws[w].is_active}
FreeActiveIgnoringActive(ws) == {w \in Workers : ws[w].status = "free"}

\* DeliveryBoy.query.filter_by(status='free', is_active=True)
FreeActive(ws) ==
  {w \in Workers : ws[w].status = "free" /\ ws[w].is_active}

\* datetime.now(timezone.utc).date()
Date(t) == t \div MinutesPerDay

\* CallLog.query.filter(delivery_boy_id == w, call_time >= today).count()
TodayCount(logs, w, t) ==
  Cardinality({i \in 1..Len(logs) :
                 /\ logs[i].delivery_boy_id = w
                 /\ Date(logs[i].call_time) >= Date(t)})

(* ------------------------------ writes -------------------------------- *)
\* faulty variant: the order id is not stored on the worker
MarkOccupiedNoOrder(ws, w, order) == [ws EXCEPT ![w].status = "occupied"]

\* available_delivery_boy.status = 'occupied'; .current_order_id = order_id
\* (the flush updates the two changed columns of that row)
MarkOccupied(ws, w, order) ==
  [ws EXCEPT ![w].status = "occupied", ![w].current_order_id = order]

\* delivery_boy.status = new_status; 'free' also clears current_order_id
SetStatus(ws, w, s) ==
  [ws EXCEPT ![w].status = s,
             ![w].current_order_id = IF s = "free" THEN NoOrder ELSE @]

\* faulty variant: the new record takes the place of the newest one
OverwriteCallLog(logs, rec) ==
  IF logs = <<>> THEN <<rec>> ELSE [logs EXCEPT ![Len(logs)] = rec]

\* db.session.add(call_log)
AppendCallLog(logs, rec) == Append(logs, rec)

(* ------------------------------- Init --------------------------------- *)
\* Rows as register() creates them (free, no order, no deliveries); a row
\* may have been deactivated in the store since (is_active = FALSE).
Init ==
  /\ workers \in [Workers -> {DeliveryBoy(a) : a \in BOOLEAN}]
  /\ call_logs = <<>>
  /\ now = 0
  /\ pc = [r \in Req |-> "new"]
  /\ caller = [r \in Req |-> ""]
  /\ sel = [r \in Req |-> NoWorker]
  /\ tx = [r \in Req |-> "none"]
  /\ raised = [r \in Req |-> ""]
  /\ resp = [r \in Req |-> NoResponse]
  /\ api = NoApi

(* ------------------------- allocate_delivery -------------------------- *)
\* faulty variant: the except clause of the JSON endpoints (an error body, 500)
ExceptHttpError(r, where) ==
  /\ raised' = [raised EXCEPT ![r] = where]
  /\ resp' = [resp EXCEPT ![r] =
       Response(500, "application/json", "Failed to allocate delivery", NoWorker)]
  /\ pc' = [pc EXCEPT ![r] = "done"]

\* the except clause: log, answer the generic message with 200
Except(r, where) ==
  /\ raised' = [raised EXCEPT ![r] = where]
  /\ resp' = [resp EXCEPT ![r] = ErrorProcessing]
  /\ pc' = [pc EXCEPT ![r] = "done"]

\* caller_number = request.form.get('From'); if not caller_number: 400
AllocReceive(r, c) ==
  /\ pc[r] = "new"
  /\ caller' = [caller EXCEPT ![r] = c]
  /\ IF c = ""
     THEN /\ resp' = [resp EXCEPT ![r] = CallerMissing]
          /\ pc' = [pc EXCEPT ![r] = "done"]
     ELSE /\ pc' = [pc EXCEPT ![r] = "query"]
          /\ UNCHANGED resp
  /\ UNCHANGED <<workers, call_logs, now, sel, tx, raised, api>>

\* the SELECT ... .first(): any matching row (no ORDER BY), or none
AllocQuery(r) ==
  /\ pc[r] = "query"
  /\ IF FreeActive(workers) = {}
     THEN /\ resp' = [resp EXCEPT ![r] = AllBusy]
          /\ pc' = [pc EXCEPT ![r] = "done"]
          /\ UNCHANGED sel
     ELSE /\ \E w \in FreeActive(workers) : sel' = [sel EXCEPT ![r] = w]
          /\ pc' = [pc EXCEPT ![r] = "commit"]
          /\ UNCHANGED resp
  /\ UNCHANGED <<workers, call_logs, now, caller, tx, raised, api>>

\* the SELECT raises (store unreachable)
AllocQueryFail(r) ==
  /\ pc[r] = "query"
  /\ Except(r, "query")
  /\ UNCHANGED <<workers, call_logs, now, caller, sel, tx, api>>

\* order id, the two assignments, the CallLog, add and commit: the UPDATE
\* and the INSERT are flushed in the session's transaction and committed
AllocCommit(r, u) ==
  /\ pc[r] = "commit"
  /\ LET order == generate_order_id(now, u) IN
       /\ workers' = MarkOccupied(workers, sel[r], order)
       /\ call_logs' = AppendCallLog(call_logs, CallLog(sel[r], caller[r], order, now))
  /\ tx' = [tx EXCEPT ![r] = "committed"]
  /\ pc' = [pc EXCEPT ![r] = "respond"]
  /\ UNCHANGED <<now, caller, sel, raised, resp, api>>

\* faulty variant: the worker UPDATE is committed on its own before the INSERT fails
AllocCommitFailPartial(r) ==
  /\ pc[r] = "commit"
  /\ \E u \in Suffixes :
       workers' = MarkOccupied(workers, sel[r], generate_order_id(now, u))
  /\ tx' = [tx EXCEPT ![r] = "rolled_back"]
  /\ Except(r, "commit")
  /\ UNCHANGED <<call_logs, now, caller, sel, api>>

\* the flush or the COMMIT raises: nothing of the transaction is committed
\* (the session is discarded, and with it the pending UPDATE and INSERT)
AllocCommitFail(r) ==
  /\ pc[r] = "commit"
  /\ tx' = [tx EXCEPT ![r] = "rolled_back"]
  /\ Except(r, "commit")
  /\ UNCHANGED <<workers, call_logs, now, caller, sel, api>>

\* the TwiML answer: say the worker's name, then dial the worker's phone
\* (or, without Twilio credentials, say that forwarding is not configured);
\* dial names the worker the caller is connected to
AllocRespond(r) ==
  /\ pc[r] = "respond"
  /\ resp' = [resp EXCEPT ![r] = Connecting(sel[r])]
  /\ pc' = [pc EXCEPT ![r] = "done"]
  /\ UNCHANGED <<workers, call_logs, now, caller, sel, tx, raised, api>>

\* reading available_delivery_boy.name after the commit reloads the expired
\* row; that SELECT raises (store unreachable) and the except clause answers
AllocRespondFail(r) ==
  /\ pc[r] = "respond"
  /\ Except(r, "reload")
  /\ UNCHANGED <<workers, call_logs, now, caller, sel, tx, api>>

(* --------------------------- update_status ---------------------------- *)
\* new_status is validated, the row of the session's worker is read,
\* changed and committed (rows are never deleted, so it is found); a store
\* failure is answered 500 with nothing committed
UpdateStatus(w, s) ==
  /\ \/ /\ s \notin {"free", "occupied"}
        /\ api' = BadRequest
        /\ UNCHANGED workers
     \/ /\ s \in {"free", "occupied"}
        /\ workers' = SetStatus(workers, w, s)
        /\ api' = Ok
     \/ /\ s \in {"free", "occupied"}
        /\ api' = ServerError
        /\ UNCHANGED workers
  /\ UNCHANGED <<call_logs, now, pc, caller, sel, tx, raised, resp>>

(* --------------------------- get_dashboard ---------------------------- *)
\* an inactive worker is answered 404; otherwise deliveries_today is set to
\* today's count of the worker's call logs and committed; a store failure
\* is answered 500 with nothing committed
GetDashboard(w) ==
  /\ \/ /\ ~workers[w].is_active
        /\ api' = NotFound
        /\ UNCHANGED workers
     \/ /\ workers[w].is_active
        /\ workers' = [workers EXCEPT
                         ![w].deliveries_today = TodayCount(call_logs, w, now)]
        /\ api' = Ok
     \/ /\ api' = ServerError
        /\ UNCHANGED workers
  /\ UNCHANGED <<call_logs, now, pc, caller, sel, tx, raised, resp>>

(* --------------------------- get_call_logs ---------------------------- *)
\* a paginated read of the worker's call logs: no write
GetCallLogs(w) ==
  /\ api' \in {Ok, ServerError}
  /\ UNCHANGED <<workers, call_logs, now, pc, caller, sel, tx, raised, resp>>

(* ------------------------------- clock -------------------------------- *)
Tick ==
  /\ now < MaxMinute
  /\ now' = now + 1
  /\ UNCHANGED <<workers, call_logs, pc, caller, sel, tx, raised, resp, api>>

(* --------------------------- specifications --------------------------- *)
Next ==
  \/ \E r \in Req, c \in FromValues : AllocReceive(r, c)
  \/ \E r \in Req : AllocQuery(r)
  \/ \E r \in Req : AllocQueryFail(r)
  \/ \E r \in Req, u \in Suffixes : AllocCommit(r, u)
  \/ \E r \in Req : AllocCommitFail(r)
  \/ \E r \in Req : AllocRespond(r)
  \/ \E r \in Req : AllocRespondFail(r)
  \/ \E w \in Workers, s \in StatusInputs : UpdateStatus(w, s)
  \/ \E w \in Workers : GetDashboard(w)
  \/ \E w \in Workers : GetCallLogs(w)
  \/ Tick

Spec == Init /\ [][Next]_vars

\* Webhooks only, each with a caller number, and a store that never fails:
\* NumReq concurrent allocate_delivery requests against the initial pool.
NextAlloc ==
  \/ \E r \in Req, c \in Callers : AllocReceive(r, c)
  \/ \E r \in Req : AllocQuery(r)
  \/ \E r \in Req, u \in Suffixes : AllocCommit(r, u)
  \/ \E r \in Req : AllocRespond(r)

SpecAlloc == Init /\ [][NextAlloc]_vars

\* One request at a time: a handler starts only when no webhook is between
\* its SELECT and its response.
Quiet == \A r \in Req : pc[r] \in {"new", "done"}

NextSeq ==
  \/ Quiet /\ \E r \in Req, c \in FromValues : AllocReceive(r, c)
  \/ \E r \in Req : AllocQuery(r)
  \/ \E r \in Req : AllocQueryFail(r)
  \/ \E r \in Req, u \in Suffixes : AllocCommit(r, u)
  \/ \E r \in Req : AllocCommitFail(r)
  \/ \E r \in Req : AllocRespond(r)
  \/ \E r \in Req : AllocRespondFail(r)
  \/ Quiet /\ \E w \in Workers, s \in StatusInputs : UpdateStatus(w, s)
  \/ Quiet /\ \E w \in Workers : GetDashboard(w)
  \/ Quiet /\ \E w \in Workers : GetCallLogs(w)
  \/ Tick

SpecSeq == Init /\ [][NextSeq]_vars

(* ------------------------------ helpers ------------------------------- *)
Min(a, b) == IF a < b THEN a ELSE b
AllDone == \A r \in Req : pc[r] = "done"
Assigned == {r \in Req : resp[r].dial # NoWorker}

(***************************************************************************)
(* C1: N concurrent allocate_delivery requests against a pool of K free,   *)
(* active workers end in exactly min(N, K) assignments, each to a distinct *)
(* worker, the others being told that all workers are busy; no worker is   *)
(* ever assigned by two requests.  (Under SpecAlloc every worker starts    *)
(* free and nothing frees or deactivates one, so K is the number of active *)
(* rows, and N is NumReq.)                                                 *)
(***************************************************************************)
ConcurrentAllocation ==
  /\ \A r1, r2 \in Req :
       (r1 # r2 /\ tx[r1] = "committed" /\ tx[r2] = "committed") => sel[r1] # sel[r2]
  /\ AllDone =>
       /\ Cardinality(Assigned) =
            Min(NumReq, Cardinality({w \in Workers : workers[w].is_active}))
       /\ \A r \in Req \ Assigned : resp[r] = AllBusy

(***************************************************************************)
(* C2: in every reachable state each worker is occupied if and only if its *)
(* current_order_id is not null.                                           *)
(***************************************************************************)
StatusMatchesOrder ==
  \A w \in Workers :
    (workers[w].status = "occupied") <=> (workers[w].current_order_id # NoOrder)

(***************************************************************************)
(* C3: with at least one free, active worker, a caller number and no       *)
(* persistence failure, one allocate_delivery request run on its own       *)
(* selects a free active worker, changes exactly that worker from free to  *)
(* occupied with the order id minted in the request, leaves every other    *)
(* worker (and the chosen worker's other columns) unchanged, and appends   *)
(* exactly one call log, with that worker's id, that order id, the caller  *)
(* number and status connected.                                            *)
(***************************************************************************)
SingleAllocation ==
  [][\A r \in Req :
       /\ (/\ pc[r] = "query" /\ pc'[r] # "query" /\ raised'[r] = ""
           /\ \E w \in Workers : workers[w].status = "free" /\ workers[w].is_active)
          => /\ pc'[r] = "commit"
             /\ sel'[r] \in Workers
             /\ workers[sel'[r]].status = "free" /\ workers[sel'[r]].is_active
             /\ workers' = workers /\ call_logs' = call_logs
       /\ (pc[r] = "commit" /\ pc'[r] # "commit" /\ raised'[r] = "")
          => \E w \in Workers, u \in Suffixes :
               /\ workers[w].status = "free" /\ workers[w].is_active
               /\ workers'[w] = [workers[w] EXCEPT
                                   !.status = "occupied",
                                   !.current_order_id = <<"ORD", now, u>>]
               /\ \A v \in Workers \ {w} : workers'[v] = workers[v]
               /\ Len(call_logs') = Len(call_logs) + 1
               /\ SubSeq(call_logs', 1, Len(call_logs)) = call_logs
               /\ call_logs'[Len(call_logs')].delivery_boy_id = w
               /\ call_logs'[Len(call_logs')].order_id = workers'[w].current_order_id
               /\ call_logs'[Len(call_logs')].client_number = caller[r]
               /\ call_logs'[Len(call_logs')].call_status = "connected"
               /\ caller[r] # ""
       /\ (pc[r] = "respond" /\ pc'[r] # "respond" /\ raised'[r] = "")
          => /\ workers' = workers /\ call_logs' = call_logs
             /\ resp'[r].code = 200 /\ resp'[r].dial = sel[r]
    ]_vars

SingleAllocationDone ==
  \E r \in Req :
    /\ pc[r] = "done" /\ tx[r] = "committed" /\ resp[r].dial = sel[r]
    /\ \E w \in Workers : workers[w].status = "free" /\ workers[w].is_active
    /\ \E w \in Workers : workers[w].status = "occupied" /\ w # sel[r]

(***************************************************************************)
(* C4: when no worker is free and active, allocate_delivery changes no     *)
(* worker, appends no call log and answers that all workers are busy.      *)
(***************************************************************************)
NoWorkerNoEffect ==
  [][\A r \in Req :
       (/\ pc[r] = "query" /\ pc'[r] # "query" /\ raised'[r] = ""
        /\ \A w \in Workers : ~(workers[w].status = "free" /\ workers[w].is_active))
       => /\ resp'[r] = AllBusy
          /\ pc'[r] = "done"
          /\ tx'[r] = "none"
          /\ workers' = workers
          /\ call_logs' = call_logs
    ]_vars

AnsweredBusy ==
  \E r \in Req :
    /\ resp[r] = AllBusy
    /\ \E w \in Workers : workers[w].is_active /\ workers[w].status = "occupied"

(***************************************************************************)
(* C5 as claimed: whenever persistence fails at any point of an            *)
(* allocate_delivery request, the committed state holds no worker update   *)
(* and no call log of that request.                                        *)
(***************************************************************************)
FailureCommitsNothing ==
  \A r \in Req : raised[r] # "" => tx[r] # "committed"

(***************************************************************************)
(* C5 as amended: the worker update and the call-log insert of a request   *)
(* are one unit: a step of a request either commits both (the worker it    *)
(* selected occupied with an order id, and one appended call log with that *)
(* worker and that order id) or changes neither table, and what is         *)
(* committed stays committed; a failure of the SELECT or of the commit     *)
(* leaves neither committed, and a failure after the commit (the reload of *)
(* the worker for the response) leaves both.                               *)
(***************************************************************************)
AllocationIsOneUnit ==
  [][\A r \in Req :
       /\ (pc'[r] # pc[r]) =>
            IF tx'[r] = "committed" /\ tx[r] # "committed"
            THEN /\ workers'[sel[r]].status = "occupied"
                 /\ workers'[sel[r]].current_order_id # NoOrder
                 /\ \A v \in Workers \ {sel[r]} : workers'[v] = workers[v]
                 /\ Len(call_logs') = Len(call_logs) + 1
                 /\ SubSeq(call_logs', 1, Len(call_logs)) = call_logs
                 /\ call_logs'[Len(call_logs')].delivery_boy_id = sel[r]
                 /\ call_logs'[Len(call_logs')].order_id =
                      workers'[sel[r]].current_order_id
            ELSE /\ workers' = workers
                 /\ call_logs' = call_logs
                 /\ tx'[r] = "committed" <=> tx[r] = "committed"
       /\ (pc'[r] = pc[r]) => tx'[r] = tx[r]
       /\ raised'[r] \in {"query", "commit"} => tx'[r] # "committed"
       /\ raised'[r] = "reload" => tx'[r] = "committed"
    ]_vars

FailedAtCommit ==
  \E r1, r2 \in Req :
    /\ raised[r1] = "commit" /\ tx[r1] = "rolled_back"
    /\ raised[r2] = "reload" /\ tx[r2] = "committed"

(***************************************************************************)
(* C6: a request whose caller number is missing or empty is answered with  *)
(* a spoken apology (TwiML) and a success status, not an HTTP error, and   *)
(* touches neither the store nor any worker or call log.                   *)
(***************************************************************************)
MissingCallerApology ==
  \A r \in Req :
    (pc[r] = "done" /\ caller[r] = "") =>
      /\ resp[r].code = 200
      /\ resp[r].ctype = "application/xml"
      /\ sel[r] = NoWorker /\ tx[r] = "none"

(***************************************************************************)
(* C7: whenever an exception is raised while allocate_delivery processes a *)
(* call, the request ends with the generic "error processing your call"    *)
(* instruction and status 200, never an HTTP error; and it is not retried: *)
(* after the exception the request takes no further step.                  *)
(***************************************************************************)
ExceptionAnswered ==
  [][\A r \in Req :
       /\ raised'[r] # "" =>
            /\ pc'[r] = "done"
            /\ resp'[r].code = 200
            /\ resp'[r].ctype = "application/xml"
            /\ resp'[r].say = "Sorry, there was an error processing your call. Please try again later."
            /\ resp'[r].dial = NoWorker
       /\ raised[r] # "" =>
            /\ pc'[r] = pc[r] /\ sel'[r] = sel[r] /\ tx'[r] = tx[r]
            /\ raised'[r] = raised[r] /\ resp'[r] = resp[r]
    ]_vars

AllFailuresSeen ==
  /\ \E r \in Req : raised[r] = "query"
  /\ \E r \in Req : raised[r] = "reload"

(***************************************************************************)
(* C8: the worker allocate_delivery selects is free and active when it is  *)
(* read; a call log is only ever created for the worker the request read,  *)
(* an active one; an allocation never marks a deactivated worker occupied; *)
(* and a request answers that all are busy only when no worker is free and *)
(* active.                                                                 *)
(***************************************************************************)
SelectsFreeActive ==
  [][\A r \in Req :
       /\ sel'[r] # sel[r] =>
            /\ sel'[r] \in Workers
            /\ workers[sel'[r]].status = "free"
            /\ workers[sel'[r]].is_active
       /\ (tx'[r] = "committed" /\ tx[r] # "committed") =>
            /\ workers[sel[r]].is_active
            /\ call_logs'[Len(call_logs')].delivery_boy_id = sel[r]
            /\ \A w \in Workers :
                 workers'[w] # workers[w] => (w = sel[r] /\ workers[w].is_active)
       /\ call_logs' # call_logs => \E q \in Req : tx'[q] # tx[q]
       /\ (resp'[r] = AllBusy /\ resp[r] # AllBusy) =>
            \A w \in Workers : ~(workers[w].status = "free" /\ workers[w].is_active)
    ]_vars

AllocatedBesideInactive ==
  /\ \E w \in Workers : ~workers[w].is_active /\ workers[w].status = "free"
  /\ \E r \in Req : tx[r] = "committed" /\ workers[sel[r]].status = "occupied"
  /\ \E r \in Req : resp[r] = AllBusy

(***************************************************************************)
(* C9: call logs are append-only: no request (allocate_delivery,           *)
(* update_status, get_dashboard, get_call_logs) modifies or deletes an     *)
(* existing call log; the table only grows.                                *)
(***************************************************************************)
CallLogsAppendOnly ==
  [][/\ Len(call_logs') >= Len(call_logs)
     /\ SubSeq(call_logs', 1, Len(call_logs)) = call_logs
    ]_vars

TwoLogsThenFreed ==
  /\ Len(call_logs) = NumReq
  /\ \A w \in Workers : workers[w].status = "free"
  /\ \E w \in Workers : workers[w].deliveries_today > 0

(***************************************************************************)
(* C10: order ids are unique: no two call logs (so no two allocations)     *)
(* carry the same order id, in particular not two minted within the same   *)
(* minute.                                                                 *)
(***************************************************************************)
OrderIdsUnique ==
  \A i, j \in 1..Len(call_logs) :
    i # j => call_logs[i].order_id # call_logs[j].order_id

(***************************************************************************)
(* C11: the free-worker lookup of allocate_delivery is deterministic on an *)
(* unchanged store: two lookups with no mutation between them return the   *)
(* same worker.  (Under SpecAlloc only a commit changes the store, so      *)
(* while no request has committed every lookup made so far has read the    *)
(* same, initial, store.)                                                  *)
(***************************************************************************)
LookupDeterministic ==
  (\A q \in Req : tx[q] = "none") =>
    \A r1, r2 \in Req :
      (sel[r1] # NoWorker /\ sel[r2] # NoWorker) => sel[r1] = sel[r2]

====
